---------------------------- MODULE Spec2Model ----------------------------
(***************************************************************************)
(* A model of the cgbi package: the conversion of PNG byte streams between *)
(* the standard container and Apple's CgBI variant.                        *)
(*                                                                         *)
(* Bytes are the integers 0..255 and a Uint8Array is a sequence of bytes;  *)
(* JS indices are 0-based and are shifted by one where a sequence is read. *)
(* A conversion call is a record (its reader, accumulators, pending codec  *)
(* promises and outcome); the calls in flight are the function calls.      *)
(***************************************************************************)
EXTENDS Integers, Sequences, FiniteSets, TLC

VARIABLES
    module,     \* the module-level byte arrays PNG_HEADER, CGBI_CHUNK, CGBI_BGRA
    calls,      \* call id -> the state of that convert() invocation
    running,    \* the call that holds the JS thread (0: the event loop is idle)
    swapTest,   \* a run of the byte-swap transform on its own
    detector    \* a run of the format detector on its own

vars == <<module, calls, running, swapTest, detector>>

-----------------------------------------------------------------------------
(* Bounds of the model. *)

\* chunks generated after IHDR in an input file
MaxChunks == 3
\* number of distinct truncation lengths tried on an input file
MaxCuts == 2
\* largest image width / height drawn for the byte-swap runs
MaxWidth == 2
MaxHeight == 2

-----------------------------------------------------------------------------
(* Byte-sequence helpers. *)

Min(a, b) == IF a < b THEN a ELSE b
Max(a, b) == IF a > b THEN a ELSE b

Byte == 0..255

\* TypedArray.prototype.subarray(begin, end): both ends are clamped to the
\* buffer, a negative index counts from the end, an empty view when end <= begin.
Subarray(buf, begin, end) ==
    LET len  == Len(buf)
        clamp(i) == IF i < 0 THEN Max(len + i, 0) ELSE Min(i, len)
        b == clamp(begin)
        e == clamp(end)
    IN  IF e <= b THEN << >> ELSE SubSeq(buf, b + 1, e)

\* a[i] of a Uint8Array as written back into a Uint8Array: an index outside
\* the array reads undefined, which a typed-array store turns into 0.
Load(a, i) == IF i >= 0 /\ i < Len(a) THEN a[i + 1] ELSE 0

\* a[i] = v on a Uint8Array: a store outside the array is ignored.
Store(a, i, v) == IF i >= 0 /\ i < Len(a) THEN [a EXCEPT ![i + 1] = v] ELSE a

\* a[i] as a plain read: -1 stands for undefined.
At(a, i) == IF i >= 0 /\ i < Len(a) THEN a[i + 1] ELSE -1

\* new Uint8Array(n)
RECURSIVE Zeros(_)
Zeros(n) ==
    IF n <= 0 THEN << >>
    ELSE IF n = 1 THEN <<0>>
    ELSE Zeros(n \div 2) \o Zeros(n - (n \div 2))

isEquals(a, b) ==
    IF Len(a) # Len(b) THEN FALSE
    ELSE \A i \in 1..Len(a) : a[i] = b[i]

RECURSIVE toNumberFrom(_, _, _)
toNumberFrom(data, i, result) ==
    IF i > Len(data) THEN result
    ELSE toNumberFrom(data, i + 1, result * 256 + data[i])

toNumber(data) == toNumberFrom(data, 1, 0)

toUint8Array(n) ==
    << (n \div 16777216) % 256, (n \div 65536) % 256, (n \div 256) % 256, n % 256 >>

\* Loops over a range are evaluated by halving the range: the iterations run
\* in the code's order, each on the state the one before it left (left is
\* bound to the state the first half ends in before the second half starts).
RECURSIVE concatRange(_, _, _)
concatRange(arrays, lo, hi) ==
    IF lo > hi THEN << >>
    ELSE IF lo = hi THEN arrays[lo]
    ELSE LET mid == (lo + hi) \div 2
         IN  concatRange(arrays, lo, mid) \o concatRange(arrays, mid + 1, hi)

concatUint8Array(arrays) == concatRange(arrays, 1, Len(arrays))

-----------------------------------------------------------------------------
(* Module-level constants of the package. *)

PNG_HEADER == <<137, 80, 78, 71, 13, 10, 26, 10>>
CGBI_CHUNK == <<0, 0, 0, 4, 67, 103, 66, 73>>
CGBI_BGRA  == <<80, 0, 32, 6, 44, 184, 119, 102>>

ModuleInit ==
    [PNG_HEADER |-> PNG_HEADER, CGBI_CHUNK |-> CGBI_CHUNK, CGBI_BGRA |-> CGBI_BGRA]

\* String.fromCharCode(...bytes) compared with a literal: the char codes.
TagIHDR == <<73, 72, 68, 82>>
TagIDAT == <<73, 68, 65, 84>>
TagIDOT == <<105, 68, 79, 84>>
TagIEND == <<73, 69, 78, 68>>
TagTEXT == <<116, 69, 88, 116>>

IEND_CHUNK == <<0, 0, 0, 0, 73, 69, 78, 68, 174, 66, 96, 130>>

-----------------------------------------------------------------------------
(* Format detector. *)

hasPngHeader(data) == isEquals(Subarray(data, 0, 8), module.PNG_HEADER)

hasCgbiChunk(data, offset) ==
    isEquals(Subarray(data, offset, offset + 8), module.CGBI_CHUNK)

\* Variant: the magic header is not checked.
isStandardPng_NoMagic(data) == ~hasCgbiChunk(data, 8)

isStandardPng(data) == hasPngHeader(data) /\ ~hasCgbiChunk(data, 8)

isCgbiPng(data) == hasPngHeader(data) /\ hasCgbiChunk(data, 8)

-----------------------------------------------------------------------------
(* Checksum primitive: CRC-32 (IEEE) of a chunk tag followed by its payload.  *)
(* A 32-bit value is kept as its four base-256 digits, most significant      *)
(* first, which is also the form toUint8Array gives it in the output.        *)

RECURSIVE XorBits(_, _, _)
XorBits(a, b, n) ==
    IF n = 0 THEN 0
    ELSE ((a + b) % 2) + 2 * XorBits(a \div 2, b \div 2, n - 1)

Xor8 == [a \in Byte |-> [b \in Byte |-> XorBits(a, b, 8)]]

Xor32(a, b) == <<Xor8[a[1]][b[1]], Xor8[a[2]][b[2]], Xor8[a[3]][b[3]], Xor8[a[4]][b[4]]>>

Shr1(c) ==
    << c[1] \div 2,
       (c[1] % 2) * 128 + c[2] \div 2,
       (c[2] % 2) * 128 + c[3] \div 2,
       (c[3] % 2) * 128 + c[4] \div 2 >>

CrcPoly == <<237, 184, 131, 32>>

RECURSIVE CrcBits(_, _)
CrcBits(c, k) ==
    IF k = 0 THEN c
    ELSE CrcBits(IF c[4] % 2 = 1 THEN Xor32(CrcPoly, Shr1(c)) ELSE Shr1(c), k - 1)

CrcTable == [n \in Byte |-> CrcBits(<<0, 0, 0, n>>, 8)]

CrcByte(crc, byte) ==
    Xor32(CrcTable[Xor8[crc[4]][byte]], <<0, crc[1], crc[2], crc[3]>>)

RECURSIVE CrcUpdate(_, _, _, _)
CrcUpdate(crc, bytes, lo, hi) ==
    IF lo > hi THEN crc
    ELSE IF lo = hi THEN CrcByte(crc, bytes[lo])
    ELSE LET mid == (lo + hi) \div 2
         IN  CHOOSE right \in
                 {CrcUpdate(left, bytes, mid + 1, hi) :
                     left \in {CrcUpdate(crc, bytes, lo, mid)}} : TRUE

calculateCRC(type, data) ==
    Xor32(CrcUpdate(<<255, 255, 255, 255>>, type \o data, 1, Len(type) + Len(data)),
          <<255, 255, 255, 255>>)

\* [length][tag][payload][CRC-32(tag ++ payload)]
encodeChunk(type, data) ==
    toUint8Array(Len(data)) \o type \o data \o calculateCRC(type, data)

-----------------------------------------------------------------------------
(* Compression codec (pako behind promisify).  The model is the stored-block *)
(* subset of DEFLATE: deflateRaw emits one final stored block, deflate wraps *)
(* it in the zlib header and the Adler-32 trailer, and each inflate accepts  *)
(* exactly the streams of its own wrap style and throws on anything else.    *)

AdlerByte(ab, byte) ==
    LET a == (ab[1] + byte) % 65521
    IN  <<a, (ab[2] + a) % 65521>>

RECURSIVE AdlerUpdate(_, _, _, _)
AdlerUpdate(ab, x, lo, hi) ==
    IF lo > hi THEN ab
    ELSE IF lo = hi THEN AdlerByte(ab, x[lo])
    ELSE LET mid == (lo + hi) \div 2
         IN  CHOOSE right \in
                 {AdlerUpdate(left, x, mid + 1, hi) :
                     left \in {AdlerUpdate(ab, x, lo, mid)}} : TRUE

Adler32(x) ==
    CHOOSE sum \in {<<ab[2] \div 256, ab[2] % 256, ab[1] \div 256, ab[1] % 256>> :
                       ab \in {AdlerUpdate(<<1, 0>>, x, 1, Len(x))}} : TRUE

ZlibHeader == <<120, 1>>

\* A settled promise: fulfilled with a buffer, or rejected with what was thrown.
Fulfilled(v) == [ok |-> TRUE, value |-> v, reason |-> ""]
Rejected(why) == [ok |-> FALSE, value |-> << >>, reason |-> why]
Unsettled == [ok |-> FALSE, value |-> << >>, reason |-> "no promise"]

pakoDeflateRaw(x) ==
    LET lo == Len(x) % 256
        hi == Len(x) \div 256
    IN  Fulfilled(<<1, lo, hi, 255 - lo, 255 - hi>> \o x)

pakoDeflate(x) ==
    Fulfilled(ZlibHeader \o pakoDeflateRaw(x).value \o Adler32(x))

pakoInflateRaw(z) ==
    IF /\ Len(z) >= 5
       /\ z[1] = 1
       /\ z[4] = 255 - z[2]
       /\ z[5] = 255 - z[3]
       /\ Len(z) = 5 + z[2] + 256 * z[3]
    THEN Fulfilled(SubSeq(z, 6, Len(z)))
    ELSE Rejected("invalid block")

pakoInflate(z) ==
    IF Len(z) >= 6 /\ SubSeq(z, 1, 2) = ZlibHeader
    THEN LET body == pakoInflateRaw(SubSeq(z, 3, Len(z) - 4))
         IN  IF body.ok /\ SubSeq(z, Len(z) - 3, Len(z)) = Adler32(body.value)
             THEN body
             ELSE Rejected("incorrect data check")
    ELSE Rejected("incorrect header check")

\* promisify(fn)(buf): fn runs inside the Promise executor, so the promise is
\* already settled (fulfilled with fn's value, rejected with what it threw)
\* when the caller reaches its await.  fault is the environment making fn throw.
promisify(settled, fault) == IF fault THEN Rejected("thrown by the codec") ELSE settled

\* Variant: the two entries of the table change places.
byteSwapFunctionMap_Flipped(isCgbi) ==
    IF isCgbi THEN [inflate |-> "inflate", deflate |-> "deflateRaw"]
    ELSE [inflate |-> "inflateRaw", deflate |-> "deflate"]

\* byteSwapFunctionMap[isCgbi ? 0 : 1]
byteSwapFunctionMap(isCgbi) ==
    IF isCgbi THEN [inflate |-> "inflateRaw", deflate |-> "deflate"]
    ELSE [inflate |-> "inflate", deflate |-> "deflateRaw"]

codec(name, buf) ==
    CASE name = "inflateRaw" -> pakoInflateRaw(buf)
      [] name = "inflate"    -> pakoInflate(buf)
      [] name = "deflateRaw" -> pakoDeflateRaw(buf)
      [] name = "deflate"    -> pakoDeflate(buf)

-----------------------------------------------------------------------------
(* Pixel byte-swap transform: the loops of byteSwapIdat between its inflate  *)
(* and its deflate.                                                          *)

\* Variant: the first three bytes of a pixel are rotated, not 0 and 2 exchanged.
swapPixel_Rotate(decompressed, st) ==
    LET offset == st.offset
        n0 == Store(st.newIdat, offset, Load(decompressed, offset + 1))
        n1 == Store(n0, offset + 1, Load(decompressed, offset + 2))
        n2 == Store(n1, offset + 2, Load(decompressed, offset))
        n3 == Store(n2, offset + 3, Load(decompressed, offset + 3))
    IN  [newIdat |-> n3, offset |-> offset + 4]

\* The body of the pixel loop: bytes 0 and 2 change places, 1 and 3 stay.
swapPixel(decompressed, st) ==
    LET offset == st.offset
        n0 == Store(st.newIdat, offset, Load(decompressed, offset + 2))
        n1 == Store(n0, offset + 1, Load(decompressed, offset + 1))
        n2 == Store(n1, offset + 2, Load(decompressed, offset))
        n3 == Store(n2, offset + 3, Load(decompressed, offset + 3))
    IN  [newIdat |-> n3, offset |-> offset + 4]

\* for (j = lo; j <= hi; j++) { pixel body }
RECURSIVE swapPixels(_, _, _, _)
swapPixels(decompressed, st, lo, hi) ==
    IF lo > hi THEN st
    ELSE IF lo = hi THEN swapPixel(decompressed, st)
    ELSE LET mid == (lo + hi) \div 2
         IN  CHOOSE right \in
                 {swapPixels(decompressed, left, mid + 1, hi) :
                     left \in {swapPixels(decompressed, st, lo, mid)}} : TRUE

\* Variant: the filter byte is skipped, not copied.
swapRow_NoFilter(decompressed, st, width) ==
    swapPixels(decompressed, [newIdat |-> st.newIdat, offset |-> st.offset + 1],
               0, width - 1)

\* The body of the scanline loop: the filter byte is copied, then the pixels.
swapRow(decompressed, st, width) ==
    swapPixels(decompressed,
               [newIdat |-> Store(st.newIdat, st.offset, Load(decompressed, st.offset)),
                offset |-> st.offset + 1],
               0, width - 1)

\* for (i = lo; i <= hi; i++) { scanline body }
RECURSIVE swapRows(_, _, _, _, _)
swapRows(decompressed, st, lo, hi, width) ==
    IF lo > hi THEN st
    ELSE IF lo = hi THEN swapRow(decompressed, st, width)
    ELSE LET mid == (lo + hi) \div 2
         IN  CHOOSE right \in
                 {swapRows(decompressed, left, mid + 1, hi, width) :
                     left \in {swapRows(decompressed, st, lo, mid, width)}} : TRUE

byteSwap(decompressed, width, height) ==
    swapRows(decompressed, [newIdat |-> Zeros(Len(decompressed)), offset |-> 0],
             0, height - 1, width).newIdat
-----------------------------------------------------------------------------
(* Binary cursor reader. *)

\* Variant: the offset stops at the end of the buffer.
ReaderRead_Clamped(buffer, offset, bytes) ==
    [offset |-> Min(offset + bytes, Max(offset, Len(buffer))),
     view |-> Subarray(buffer, offset, offset + bytes)]

\* Reader.read(bytes): the offset advances by bytes whatever the buffer holds.
ReaderRead(buffer, offset, bytes) ==
    [offset |-> offset + bytes, view |-> Subarray(buffer, offset, offset + bytes)]

-----------------------------------------------------------------------------
(* One convert() call. *)

NoHeader ==
    [width |-> 0, height |-> 0, bitDepth |-> -1, colorType |-> -1,
     compressMethod |-> -1, filterMethod |-> -1, interlaceMethod |-> -1]

Pending == [kind |-> "pending", bytes |-> << >>, errType |-> "none", message |-> << >>]
Returned(bytes) == [kind |-> "ok", bytes |-> bytes, errType |-> "none", message |-> << >>]
Thrown(type, message) ==
    [kind |-> "error", bytes |-> << >>, errType |-> type, message |-> message]

\* A call that its caller is about to make: data is the buffer handed to
\* convert, fault the codec operation the environment makes throw ("none"),
\* orig the buffer the caller started from, round 1 or 2 (output fed back).
NewCall(data, fault, orig, round) ==
    [data |-> data, fault |-> fault, orig |-> orig, round |-> round,
     pc |-> "start", offset |-> 0, isCgbi |-> FALSE, result |-> << >>,
     header |-> NoHeader, idat |-> << >>, inflated |-> Unsettled,
     decompressed |-> << >>, newIdat |-> << >>, deflated |-> Unsettled,
     codecLog |-> << >>, outcome |-> Pending]

Fail(s, type, message) ==
    [s EXCEPT !.pc = "done", !.outcome = Thrown(type, message)]

\* byte.toString(16)
HexDigit == <<"0", "1", "2", "3", "4", "5", "6", "7",
              "8", "9", "a", "b", "c", "d", "e", "f">>

toString16(byte) ==
    IF byte < 16 THEN <<HexDigit[byte + 1]>>
    ELSE <<HexDigit[(byte \div 16) + 1], HexDigit[(byte % 16) + 1]>>

\* Variant: no padding.
padStart2_None(str) == str

\* str.padStart(2, "0")
padStart2(str) == IF Len(str) < 2 THEN <<"0">> \o str ELSE str

\* headerTypeHex.join(" ")
RECURSIVE joinSpace(_)
joinSpace(parts) ==
    IF parts = << >> THEN << >>
    ELSE IF Len(parts) = 1 THEN Head(parts)
    ELSE Head(parts) \o <<" ">> \o joinSpace(Tail(parts))

headerTypeHex(headerTypeRaw) ==
    joinSpace([i \in 1..Len(headerTypeRaw) |-> padStart2(toString16(headerTypeRaw[i]))])

\* ExpectMagic: the call starts, reads 8 bytes and checks the magic header.
ExpectMagic(s) ==
    LET r == ReaderRead(s.data, 0, 8)
    IN  IF ~hasPngHeader(r.view)
        THEN Fail(s, "FormatError", <<"Data is not a PNG file.">>)
        ELSE [s EXCEPT !.pc = "cgbi", !.offset = r.offset, !.isCgbi = FALSE,
                       !.result = <<module.PNG_HEADER>>]

\* Variant: a standard input is rewound but no marker is inserted.
ExpectCgbi_NoInsert(s) ==
    LET r == ReaderRead(s.data, s.offset, 8)
    IN  IF hasCgbiChunk(r.view, 0)
        THEN [s EXCEPT !.pc = "ihdr", !.isCgbi = TRUE, !.offset = r.offset + 8]
        ELSE [s EXCEPT !.pc = "ihdr", !.offset = r.offset - 8]

\* ExpectCgbiOrPassthrough: skip the 16-byte marker, or rewind and insert it.
ExpectCgbi(s) ==
    LET r == ReaderRead(s.data, s.offset, 8)
    IN  IF hasCgbiChunk(r.view, 0)
        THEN [s EXCEPT !.pc = "ihdr", !.isCgbi = TRUE, !.offset = r.offset + 8]
        ELSE [s EXCEPT !.pc = "ihdr", !.offset = r.offset - 8,
                       !.result = @ \o <<module.CGBI_CHUNK, module.CGBI_BGRA>>]

\* ExpectIHDR: the first chunk must be tagged IHDR; its bytes are re-emitted.
ExpectIHDR(s) ==
    LET headerLength  == ReaderRead(s.data, s.offset, 4)
        headerTypeRaw == ReaderRead(s.data, headerLength.offset, 4)
        headerData    == ReaderRead(s.data, headerTypeRaw.offset,
                                    toNumber(headerLength.view))
        headerCRC     == ReaderRead(s.data, headerData.offset, 4)
    IN  IF headerTypeRaw.view # TagIHDR
        THEN Fail([s EXCEPT !.offset = headerTypeRaw.offset], "FormatError",
                  <<"Invalid PNG header: ">> \o headerTypeHex(headerTypeRaw.view))
        ELSE [s EXCEPT
                !.pc = "scan",
                !.offset = headerCRC.offset,
                !.header =
                    [width |-> toNumber(Subarray(headerData.view, 0, 4)),
                     height |-> toNumber(Subarray(headerData.view, 4, 8)),
                     bitDepth |-> At(headerData.view, 8),
                     colorType |-> At(headerData.view, 9),
                     compressMethod |-> At(headerData.view, 10),
                     filterMethod |-> At(headerData.view, 11),
                     interlaceMethod |-> At(headerData.view, 12)],
                !.result = @ \o <<headerLength.view, headerTypeRaw.view,
                                  headerData.view, headerCRC.view>>,
                !.idat = << >>]

\* Variant: iDOT is not recognised and passes through like any other chunk.
ScanChunk_KeepIDOT(s) ==
    LET length       == ReaderRead(s.data, s.offset, 4)
        chunkTypeRaw == ReaderRead(s.data, length.offset, 4)
        chunkData    == ReaderRead(s.data, chunkTypeRaw.offset, toNumber(length.view))
        crc          == ReaderRead(s.data, chunkData.offset, 4)
        t            == [s EXCEPT !.offset = crc.offset]
    IN  IF chunkTypeRaw.view = TagIDAT
        THEN [t EXCEPT !.idat = Append(@, chunkData.view)]
        ELSE IF chunkTypeRaw.view = TagIEND
        THEN [t EXCEPT !.pc = "inflate"]
        ELSE [t EXCEPT !.result = @ \o <<length.view, chunkTypeRaw.view,
                                         chunkData.view, crc.view>>]

\* One iteration of the chunk-scan loop (its test, offset < data.length, held).
ScanChunk(s) ==
    LET length       == ReaderRead(s.data, s.offset, 4)
        chunkTypeRaw == ReaderRead(s.data, length.offset, 4)
        chunkData    == ReaderRead(s.data, chunkTypeRaw.offset, toNumber(length.view))
        crc          == ReaderRead(s.data, chunkData.offset, 4)
        t            == [s EXCEPT !.offset = crc.offset]
    IN  IF chunkTypeRaw.view = TagIDAT
        THEN [t EXCEPT !.idat = Append(@, chunkData.view)]
        ELSE IF chunkTypeRaw.view = TagIDOT
        THEN t
        ELSE IF chunkTypeRaw.view = TagIEND
        THEN [t EXCEPT !.pc = "inflate"]
        ELSE [t EXCEPT !.result = @ \o <<length.view, chunkTypeRaw.view,
                                         chunkData.view, crc.view>>]

\* The loop test fails: the input is exhausted.
ScanExit(s) == [s EXCEPT !.pc = "inflate"]

\* raw = concat(idat); byteSwapIdat picks its codec pair and calls inflate.
CallInflate(s) ==
    LET raw == concatUint8Array(s.idat)
        fn  == byteSwapFunctionMap(s.isCgbi).inflate
    IN  [s EXCEPT !.pc = "awaitInflate",
                  !.inflated = promisify(codec(fn, raw), s.fault = "inflate"),
                  !.codecLog = Append(@, fn)]

\* await inflate(idat): a rejection is rethrown out of byteSwapIdat and convert.
AwaitInflate(s) ==
    IF ~s.inflated.ok
    THEN Fail(s, "CodecError", <<s.inflated.reason>>)
    ELSE [s EXCEPT !.pc = "swap", !.decompressed = s.inflated.value]

\* The scanline walk between the two codec calls.
SwapStep(s) ==
    [s EXCEPT !.pc = "deflate",
              !.newIdat = byteSwap(s.decompressed, s.header.width, s.header.height)]

CallDeflate(s) ==
    LET fn == byteSwapFunctionMap(s.isCgbi).deflate
    IN  [s EXCEPT !.pc = "awaitDeflate",
                  !.deflated = promisify(codec(fn, s.newIdat), s.fault = "deflate"),
                  !.codecLog = Append(@, fn)]

\* await deflate(newIdat), then the new IDAT chunk, IEND and the final concat.
Finalize(s) ==
    IF ~s.deflated.ok
    THEN Fail(s, "CodecError", <<s.deflated.reason>>)
    ELSE LET newIdat == s.deflated.value
             idatCRC == calculateCRC(TagIDAT, newIdat)
             result  == s.result \o <<toUint8Array(Len(newIdat)), TagIDAT, newIdat,
                                      idatCRC, IEND_CHUNK>>
         IN  [s EXCEPT !.pc = "done", !.result = result,
                       !.outcome = Returned(concatUint8Array(result))]

\* The next step of convert's body from where the call stands.
StepAlone(s) ==
    CASE s.pc = "start"        -> ExpectMagic(s)
      [] s.pc = "cgbi"         -> ExpectCgbi(s)
      [] s.pc = "ihdr"         -> ExpectIHDR(s)
      [] s.pc = "scan"         -> IF s.offset < Len(s.data) THEN ScanChunk(s) ELSE ScanExit(s)
      [] s.pc = "inflate"      -> CallInflate(s)
      [] s.pc = "awaitInflate" -> AwaitInflate(s)
      [] s.pc = "swap"         -> SwapStep(s)
      [] s.pc = "deflate"      -> CallDeflate(s)
      [] s.pc = "awaitDeflate" -> Finalize(s)

-----------------------------------------------------------------------------
(* The buffers handed to convert: PNG files assembled from chunks, whole or  *)
(* cut short, and malformed variants of them.                                *)

\* Decompressed image data of the scanline geometry width x height.
SampleImage(width, height) == [k \in 1..(height * (1 + 4 * width)) |-> 10 + k]

IhdrPayload(width, height) ==
    toUint8Array(width) \o toUint8Array(height) \o <<8, 6, 0, 0, 0>>

Marker(cgbi) == IF cgbi THEN CGBI_CHUNK \o CGBI_BGRA ELSE << >>

\* The compressed stream a file of that format carries: zlib-wrapped in a
\* standard PNG, raw in a CgBI one.
Stream(cgbi, image) ==
    IF cgbi THEN pakoDeflateRaw(image).value ELSE pakoDeflate(image).value

Tokens == {"IDAT", "tEXt", "iDOT", "IEND"}

Layouts == UNION {[1..n -> Tokens] : n \in 0..MaxChunks}

IdatCount(layout, upto) == Cardinality({i \in 1..upto : layout[i] = "IDAT"})

\* The chunk at position i of a layout; the k-th IDAT carries the k-th of the
\* equal pieces of the stream z.
ChunkOf(layout, i, z) ==
    CASE layout[i] = "IDAT" ->
            LET n == IdatCount(layout, Len(layout))
                k == IdatCount(layout, i)
            IN  encodeChunk(TagIDAT,
                    SubSeq(z, ((Len(z) * (k - 1)) \div n) + 1, (Len(z) * k) \div n))
      [] layout[i] = "tEXt" -> encodeChunk(TagTEXT, <<96 + i>>)
      [] layout[i] = "iDOT" -> encodeChunk(TagIDOT, <<i, 0, 0, 0>>)
      [] layout[i] = "IEND" -> IEND_CHUNK

Chunks(layout, z) == concatUint8Array([i \in 1..Len(layout) |-> ChunkOf(layout, i, z)])

PngFile(cgbi, width, height, layout, z) ==
    PNG_HEADER \o Marker(cgbi) \o encodeChunk(TagIHDR, IhdrPayload(width, height))
        \o Chunks(layout, z)

Cuts == {0} \cup {3 * j - 1 : j \in 1..MaxCuts}

CutEnd(file, k) == SubSeq(file, 1, Max(Len(file) - k, 0))

\* Files of every chunk layout, whole and truncated, in both formats.
LayoutFiles ==
    {CutEnd(PngFile(cgbi, 2, 1, layout, Stream(cgbi, SampleImage(2, 1))), k) :
        cgbi \in BOOLEAN, layout \in Layouts, k \in Cuts}

Geometries == (0..MaxWidth) \X (0..MaxHeight)

\* One-IDAT files of every geometry whose stream is right, is of the other
\* wrap style, is no DEFLATE stream, or holds an image one pixel column wider.
StreamFiles ==
    UNION {
        { PngFile(cgbi, g[1], g[2], <<"IDAT", "IEND">>, Stream(cgbi, SampleImage(g[1], g[2]))),
          PngFile(cgbi, g[1], g[2], <<"IDAT", "IEND">>, Stream(~cgbi, SampleImage(g[1], g[2]))),
          PngFile(cgbi, g[1], g[2], <<"IDAT", "IEND">>, <<7, 7>>),
          PngFile(cgbi, g[1], g[2], <<"IDAT", "IEND">>, Stream(cgbi, SampleImage(g[1] + 1, g[2]))) }
        : cgbi \in BOOLEAN, g \in Geometries }

BadHeader == <<137, 80, 78, 71, 13, 10, 26, 11>>
TagLow == <<10, 68, 65, 84>>

GoodStd  ==
    PngFile(FALSE, 2, 1, <<"tEXt", "IDAT", "IDAT", "tEXt", "IEND">>,
            Stream(FALSE, SampleImage(2, 1)))
GoodCgbi == PngFile(TRUE, 2, 1, <<"IDAT", "iDOT", "IDAT", "IEND">>, Stream(TRUE, SampleImage(2, 1)))

\* Buffers that are no PNG, that do not start with IHDR, that are shorter than
\* the windows the detector compares, or whose IHDR declares no payload.
MalformedFiles ==
    { BadHeader \o SubSeq(GoodStd, 9, Len(GoodStd)),
      BadHeader \o SubSeq(GoodCgbi, 9, Len(GoodCgbi)),
      PNG_HEADER \o encodeChunk(TagIDAT, Stream(FALSE, SampleImage(2, 1))) \o IEND_CHUNK,
      PNG_HEADER \o Marker(TRUE) \o encodeChunk(TagIDAT, Stream(TRUE, SampleImage(2, 1)))
          \o IEND_CHUNK,
      PNG_HEADER \o encodeChunk(TagLow, <<1>>) \o IEND_CHUNK,
      PNG_HEADER \o encodeChunk(TagIHDR, << >>)
          \o encodeChunk(TagIDAT, Stream(FALSE, SampleImage(2, 1))) \o IEND_CHUNK }
    \cup {SubSeq(GoodStd, 1, n) : n \in 0..24}
    \cup {SubSeq(GoodCgbi, 1, n) : n \in 0..24}

Scenarios ==
    {[data |-> d, fault |-> "none"] : d \in LayoutFiles \cup StreamFiles \cup MalformedFiles}
    \cup {[data |-> d, fault |-> f] : d \in {GoodStd, GoodCgbi}, f \in {"none", "inflate", "deflate"}}

\* The pairs of conversions run together.
ConcScenarios ==
    {[data |-> d, fault |-> "none"] :
        d \in { GoodStd, GoodCgbi,
                BadHeader \o SubSeq(GoodStd, 9, Len(GoodStd)),
                PNG_HEADER \o encodeChunk(TagIDAT, << >>),
                PngFile(FALSE, 1, 1, <<"IDAT">>, Stream(TRUE, SampleImage(1, 1))) }}
    \cup {[data |-> GoodStd, fault |-> "deflate"]}

-----------------------------------------------------------------------------
(* The byte-swap transform run on its own: widths, heights and buffers drawn *)
(* from bounded sets, the transform applied once and then to its own result. *)

Pixels == {<<1, 2, 3, 4>>, <<200, 0, 200, 7>>}
Filters == {0, 3}

Scanlines(width) ==
    {<<f>> \o concatUint8Array(px) : f \in Filters, px \in [1..width -> Pixels]}

Images(width, height) ==
    {concatUint8Array(rows) : rows \in [1..height -> Scanlines(width)]}

\* The image itself, the image less its last byte, the image and one byte more.
Variants(image) ==
    {image, image \o <<9>>} \cup (IF image = << >> THEN {} ELSE {SubSeq(image, 1, Len(image) - 1)})

SwapIdle ==
    [pc |-> "idle", width |-> 0, height |-> 0, input |-> << >>, once |-> << >>,
     twice |-> << >>]

DetectorIdle == [pc |-> "idle", data |-> << >>, standard |-> FALSE, cgbi |-> FALSE]

-----------------------------------------------------------------------------
(* Initial states. *)

Init ==
    /\ module = ModuleInit
    /\ running = 0
    /\ swapTest = SwapIdle
    /\ detector = DetectorIdle
    /\ \E sc \in Scenarios :
          calls = [c \in {1} |-> NewCall(sc.data, sc.fault, sc.data, 1)]

InitConc ==
    /\ module = ModuleInit
    /\ running = 0
    /\ swapTest = SwapIdle
    /\ detector = DetectorIdle
    /\ \E a \in ConcScenarios, b \in ConcScenarios :
          calls = [c \in {1, 2} |->
                      IF c = 1 THEN NewCall(a.data, a.fault, a.data, 1)
                      ELSE NewCall(b.data, b.fault, b.data, 1)]

InitSwap ==
    /\ module = ModuleInit
    /\ running = 0
    /\ calls = << >>
    /\ detector = DetectorIdle
    /\ \E w \in 0..MaxWidth, h \in 0..MaxHeight :
          \E image \in Images(w, h) :
             \E buf \in Variants(image) :
                swapTest = [pc |-> "new", width |-> w, height |-> h, input |-> buf,
                            once |-> << >>, twice |-> << >>]

InitDetect ==
    /\ module = ModuleInit
    /\ running = 0
    /\ calls = << >>
    /\ swapTest = SwapIdle
    /\ \E sc \in Scenarios :
          detector = [pc |-> "new", data |-> sc.data, standard |-> FALSE, cgbi |-> FALSE]

-----------------------------------------------------------------------------
(* Actions.  A call runs without interruption between two suspension points  *)
(* (JS run-to-completion): it resumes only when no call holds the thread,    *)
(* and gives the thread up at its next await or when it settles.             *)

Resumes == {"start", "awaitInflate", "awaitDeflate"}
Yields == {"awaitInflate", "awaitDeflate", "done"}

MayRun(c, pc) ==
    /\ calls[c].pc = pc
    /\ running = IF pc \in Resumes THEN 0 ELSE c

\* Variant: the output accumulator is one module-level array that every call
\* in flight pushes to.
Becomes_SharedResult(c, t) ==
    \E next \in {t} :
        /\ calls' = [d \in DOMAIN calls |->
                        IF d = c THEN next
                        ELSE IF calls[d].pc \in {"start", "done"} THEN calls[d]
                        ELSE [calls[d] EXCEPT !.result = next.result]]
        /\ running' = IF next.pc \in Yields THEN 0 ELSE c
        /\ UNCHANGED <<module, swapTest, detector>>

Becomes(c, t) ==
    \E next \in {t} :
        /\ calls' = [calls EXCEPT ![c] = next]
        /\ running' = IF next.pc \in Yields THEN 0 ELSE c
        /\ UNCHANGED <<module, swapTest, detector>>

DoExpectMagic(c) == MayRun(c, "start") /\ Becomes(c, ExpectMagic(calls[c]))

DoExpectCgbi(c) == MayRun(c, "cgbi") /\ Becomes(c, ExpectCgbi(calls[c]))

DoExpectIHDR(c) == MayRun(c, "ihdr") /\ Becomes(c, ExpectIHDR(calls[c]))

DoScanChunk(c) ==
    /\ MayRun(c, "scan")
    /\ calls[c].offset < Len(calls[c].data)
    /\ Becomes(c, ScanChunk(calls[c]))

DoScanExit(c) ==
    /\ MayRun(c, "scan")
    /\ ~(calls[c].offset < Len(calls[c].data))
    /\ Becomes(c, ScanExit(calls[c]))

DoCallInflate(c) == MayRun(c, "inflate") /\ Becomes(c, CallInflate(calls[c]))

DoAwaitInflate(c) == MayRun(c, "awaitInflate") /\ Becomes(c, AwaitInflate(calls[c]))

DoSwap(c) == MayRun(c, "swap") /\ Becomes(c, SwapStep(calls[c]))

DoCallDeflate(c) == MayRun(c, "deflate") /\ Becomes(c, CallDeflate(calls[c]))

DoFinalize(c) == MayRun(c, "awaitDeflate") /\ Becomes(c, Finalize(calls[c]))

\* The caller feeds a returned buffer back through convert.
Reconvert(c) ==
    /\ calls[c].pc = "done"
    /\ calls[c].outcome.kind = "ok"
    /\ calls[c].round = 1
    /\ running = 0
    /\ calls' = [calls EXCEPT ![c] = NewCall(calls[c].outcome.bytes, "none", calls[c].orig, 2)]
    /\ UNCHANGED <<module, running, swapTest, detector>>

Next ==
    \/ \E c \in DOMAIN calls : DoExpectMagic(c)
    \/ \E c \in DOMAIN calls : DoExpectCgbi(c)
    \/ \E c \in DOMAIN calls : DoExpectIHDR(c)
    \/ \E c \in DOMAIN calls : DoScanChunk(c)
    \/ \E c \in DOMAIN calls : DoScanExit(c)
    \/ \E c \in DOMAIN calls : DoCallInflate(c)
    \/ \E c \in DOMAIN calls : DoAwaitInflate(c)
    \/ \E c \in DOMAIN calls : DoSwap(c)
    \/ \E c \in DOMAIN calls : DoCallDeflate(c)
    \/ \E c \in DOMAIN calls : DoFinalize(c)
    \/ \E c \in DOMAIN calls : Reconvert(c)

SwapOnce ==
    /\ swapTest.pc = "new"
    /\ swapTest' = [swapTest EXCEPT !.pc = "once",
                        !.once = byteSwap(swapTest.input, swapTest.width, swapTest.height)]
    /\ UNCHANGED <<module, calls, running, detector>>

SwapTwice ==
    /\ swapTest.pc = "once"
    /\ swapTest' = [swapTest EXCEPT !.pc = "twice",
                        !.twice = byteSwap(swapTest.once, swapTest.width, swapTest.height)]
    /\ UNCHANGED <<module, calls, running, detector>>

NextSwap == SwapOnce \/ SwapTwice

\* A caller classifies a buffer with both exported predicates.
Classify ==
    /\ detector.pc = "new"
    /\ detector' = [detector EXCEPT !.pc = "classified",
                        !.standard = isStandardPng(detector.data),
                        !.cgbi = isCgbiPng(detector.data)]
    /\ UNCHANGED <<module, calls, running, swapTest>>

NextDetect == Classify

Spec == Init /\ [][Next]_vars

\* ENABLED <<Next>>_vars as a state predicate: some call may take its next
\* step and that step changes it, or a settled result may be fed back.
CanStep ==
    \E c \in DOMAIN calls :
        \/ /\ calls[c].pc # "done"
           /\ MayRun(c, calls[c].pc)
           /\ StepAlone(calls[c]) # calls[c]
        \/ /\ calls[c].pc = "done"
           /\ calls[c].outcome.kind = "ok"
           /\ calls[c].round = 1
           /\ running = 0

\* The JS thread runs the statement it is at, and the event loop resumes every
\* continuation whose promise has settled: WF_vars(Next), with its ENABLED
\* written as CanStep.
Fairness == []<>(~CanStep) \/ []<><<Next>>_vars

FairSpec == Init /\ [][Next]_vars /\ Fairness

ConcSpec == InitConc /\ [][Next]_vars

SwapSpec == InitSwap /\ [][NextSwap]_vars

DetectSpec == InitDetect /\ [][NextDetect]_vars

-----------------------------------------------------------------------------
(* Reading a byte stream as chunks, for the statements below. *)

\* The chunk at offset off as the reader sees it: 4 bytes of length, 4 of tag,
\* the payload, 4 of CRC; whole when the buffer holds all of them.
DecodeChunk(data, off) ==
    LET length  == ReaderRead(data, off, 4)
        type    == ReaderRead(data, length.offset, 4)
        payload == ReaderRead(data, type.offset, toNumber(length.view))
        crc     == ReaderRead(data, payload.offset, 4)
    IN  [length |-> length.view, type |-> type.view, payload |-> payload.view,
         crc |-> crc.view, next |-> crc.offset, whole |-> crc.offset <= Len(data),
         bytes |-> length.view \o type.view \o payload.view \o crc.view]

\* The chunks from offset off to the end of the buffer.
RECURSIVE ChunkList(_, _)
ChunkList(data, off) ==
    IF off >= Len(data) THEN << >>
    ELSE LET ch == DecodeChunk(data, off)
         IN  <<ch>> \o ChunkList(data, ch.next)

\* The chunks from offset off up to, not including, the first IEND.
RECURSIVE ScannedChunks(_, _)
ScannedChunks(data, off) ==
    IF off >= Len(data) THEN << >>
    ELSE LET ch == DecodeChunk(data, off)
         IN  IF ch.type = TagIEND THEN << >>
             ELSE <<ch>> \o ScannedChunks(data, ch.next)

StartsWithMagic(data) == Len(data) >= 8 /\ SubSeq(data, 1, 8) = PNG_HEADER

CarriesMarker(data) == Len(data) >= 16 /\ SubSeq(data, 9, 16) = CGBI_CHUNK

\* Where the first chunk of a file starts.
FirstChunkAt(data) == IF CarriesMarker(data) THEN 24 ELSE 8

-----------------------------------------------------------------------------
(* C1: convert toggles the format.  Whenever a call has returned a buffer,   *)
(* the buffer starts with the magic header; if the input was a standard PNG  *)
(* the output is a CgBI PNG with the 16 marker bytes right after the magic;  *)
(* if the input was a CgBI PNG the output is a standard PNG in which the     *)
(* input's first chunk follows the magic directly (the marker is consumed).  *)
C1_ConvertToggles ==
    \A c \in DOMAIN calls :
        LET s   == calls[c]
            out == s.outcome.bytes
        IN  s.outcome.kind = "ok" =>
              /\ StartsWithMagic(out)
              /\ isStandardPng(s.data) =>
                    /\ isCgbiPng(out)
                    /\ SubSeq(out, 9, 24) = CGBI_CHUNK \o CGBI_BGRA
                    /\ SubSeq(out, 25, 32) = SubSeq(s.data, 9, 16)
              /\ isCgbiPng(s.data) =>
                    /\ isStandardPng(out)
                    /\ SubSeq(out, 9, 16) = SubSeq(s.data, 25, 32)

\* A standard PNG was converted and its CgBI output converted back.
C1_Witness ==
    \E c \in DOMAIN calls :
        /\ calls[c].outcome.kind = "ok"
        /\ calls[c].round = 2
        /\ isStandardPng(calls[c].orig)
        /\ isCgbiPng(calls[c].data)
        /\ isStandardPng(calls[c].outcome.bytes)

-----------------------------------------------------------------------------
(* C6: detection exclusivity.  For every classified buffer, of any length,   *)
(* the two predicates are never both true, both are false when the buffer    *)
(* does not start with the magic header, and exactly one is true when it     *)
(* does.                                                                     *)
C6_DetectionExclusive ==
    detector.pc = "classified" =>
        /\ ~(detector.standard /\ detector.cgbi)
        /\ ~StartsWithMagic(detector.data) => (~detector.standard /\ ~detector.cgbi)
        /\ StartsWithMagic(detector.data) => (detector.standard # detector.cgbi)
        /\ detector.cgbi = (StartsWithMagic(detector.data) /\ CarriesMarker(detector.data))

\* A buffer shorter than the marker window that holds the magic header only.
C6_Witness ==
    /\ detector.pc = "classified"
    /\ Len(detector.data) < 16
    /\ detector.standard
    /\ ~detector.cgbi

-----------------------------------------------------------------------------
(* Chunk-level views of a file. *)

\* The chunks of a list whose tag is in tags (keep) or is not (~keep), in order.
Select(chunks, tags, keep) ==
    LET idx == {i \in 1..Len(chunks) : (chunks[i].type \in tags) = keep}
        nth(k) == CHOOSE i \in idx : Cardinality({j \in idx : j < i}) = k - 1
    IN  [k \in 1..Cardinality(idx) |-> chunks[nth(k)]]

PassThrough(chunks) == Select(chunks, {TagIDAT, TagIDOT}, FALSE)
Idats(chunks) == Select(chunks, {TagIDAT}, TRUE)

BytesOf(chunks) == concatUint8Array([i \in 1..Len(chunks) |-> chunks[i].bytes])
PayloadsOf(chunks) == concatUint8Array([i \in 1..Len(chunks) |-> chunks[i].payload])

\* The IHDR chunk of a file and the chunks scanned after it.
IhdrOf(data) == DecodeChunk(data, FirstChunkAt(data))
BodyOf(data) == ScannedChunks(data, IhdrOf(data).next)

\* A byte stream made of the magic header and whole chunks only, the last IEND.
WellFormed(data) ==
    /\ StartsWithMagic(data)
    /\ LET chunks == ChunkList(data, 8)
       IN  /\ chunks # << >>
           /\ \A i \in 1..Len(chunks) : chunks[i].whole /\ Len(chunks[i].length) = 4
           /\ chunks[Len(chunks)].type = TagIEND
           /\ chunks[Len(chunks)].next = Len(data)

\* A standard PNG: well formed, IHDR of 13 bytes first, one IEND, every CRC
\* right, and IDAT payloads that form a zlib stream of exactly
\* height * (1 + 4 * width) bytes.
ValidStandardPng(data) ==
    /\ WellFormed(data)
    /\ ~CarriesMarker(data)
    /\ LET chunks == ChunkList(data, 8)
           ihdr   == chunks[1]
           image  == pakoInflate(PayloadsOf(Idats(chunks)))
       IN  /\ ihdr.type = TagIHDR
           /\ Len(ihdr.payload) = 13
           /\ \A i \in 2..Len(chunks) : chunks[i].type # TagIHDR
           /\ \A i \in 1..(Len(chunks) - 1) : chunks[i].type # TagIEND
           /\ \A i \in 1..Len(chunks) :
                 chunks[i].crc = calculateCRC(chunks[i].type, chunks[i].payload)
           /\ \E i \in 1..Len(chunks) : chunks[i].type = TagIDAT
           /\ image.ok
           /\ Len(image.value) =
                 toNumber(SubSeq(ihdr.payload, 5, 8))
                    * (1 + 4 * toNumber(SubSeq(ihdr.payload, 1, 4)))

-----------------------------------------------------------------------------
(* C2: round trip.  For a valid standard PNG P whose image data has exactly  *)
(* height*(1+4*width) bytes, and codec calls that do not fail, neither       *)
(* convert(P) nor convert(convert(P)) fails, and the second output is a      *)
(* well-formed standard PNG with P's IHDR chunk, P's pass-through chunks in  *)
(* P's order, and a single IDAT that inflates to the bytes P's IDAT payloads *)
(* inflate to.                                                               *)
C2_RoundTrip ==
    \A c \in DOMAIN calls :
        LET s == calls[c]
            P == s.orig
            out == s.outcome.bytes
        IN  (s.fault = "none" /\ ValidStandardPng(P)) =>
              /\ s.outcome.kind # "error"
              /\ (s.round = 2 /\ s.pc = "done") =>
                    /\ s.outcome.kind = "ok"
                    /\ WellFormed(out)
                    /\ isStandardPng(out)
                    /\ IhdrOf(out).bytes = IhdrOf(P).bytes
                    /\ BytesOf(PassThrough(BodyOf(out)))
                          = BytesOf(PassThrough(BodyOf(P)))
                    /\ Len(Idats(BodyOf(out))) = 1
                    /\ pakoInflate(PayloadsOf(Idats(BodyOf(out))))
                          = pakoInflate(PayloadsOf(Idats(BodyOf(P))))

\* A valid standard PNG with a pass-through chunk and a non-empty image went
\* through convert twice.
C2_Witness ==
    \E c \in DOMAIN calls :
        /\ calls[c].round = 2
        /\ calls[c].pc = "done"
        /\ calls[c].fault = "none"
        /\ ValidStandardPng(calls[c].orig)
        /\ PassThrough(BodyOf(calls[c].orig)) # << >>
        /\ Len(Idats(BodyOf(calls[c].orig))) = 2
        /\ pakoInflate(PayloadsOf(Idats(BodyOf(calls[c].orig)))).value # << >>

-----------------------------------------------------------------------------
(* C3: output layout.  Every returned buffer is the magic header, the CgBI   *)
(* marker when the input carried none, the input's IHDR chunk bytes, the     *)
(* bytes of the chunks scanned after IHDR and before the first IEND less     *)
(* every IDAT and iDOT chunk, in their order, one new IDAT chunk with a      *)
(* freshly computed CRC, and the canonical IEND chunk.  When every scanned   *)
(* chunk of the input is whole, the output read as chunks holds no iDOT and  *)
(* exactly one IDAT, which is the last chunk before IEND.                    *)
C3_OutputLayout ==
    \A c \in DOMAIN calls :
        LET s      == calls[c]
            out    == s.outcome.bytes
            body   == BodyOf(s.data)
            prefix == PNG_HEADER
                        \o (IF CarriesMarker(s.data) THEN << >> ELSE CGBI_CHUNK \o CGBI_BGRA)
                        \o IhdrOf(s.data).bytes
                        \o BytesOf(PassThrough(body))
            idat   == DecodeChunk(out, Len(prefix))
            chunks == ChunkList(out, 8)
        IN  s.outcome.kind = "ok" =>
              /\ Len(out) >= Len(prefix)
              /\ SubSeq(out, 1, Len(prefix)) = prefix
              /\ idat.whole
              /\ idat.type = TagIDAT
              /\ idat.crc = calculateCRC(TagIDAT, idat.payload)
              /\ SubSeq(out, idat.next + 1, Len(out)) = IEND_CHUNK
              /\ (IhdrOf(s.data).whole /\ \A i \in 1..Len(body) : body[i].whole) =>
                    /\ \A i \in 1..Len(chunks) : chunks[i].type # TagIDOT
                    /\ \A i \in 1..Len(chunks) :
                          chunks[i].type = TagIDAT <=> i = Len(chunks) - 1
                    /\ chunks[Len(chunks)].bytes = IEND_CHUNK

\* A conversion returned for an input with an iDOT chunk and a pass-through
\* chunk placed after an IDAT chunk.
C3_Witness ==
    \E c \in DOMAIN calls :
        LET body == BodyOf(calls[c].data)
        IN  /\ calls[c].outcome.kind = "ok"
            /\ \E i \in 1..Len(body) : body[i].type = TagIDOT
            /\ \E i, j \in 1..Len(body) :
                  i < j /\ body[i].type = TagIDAT /\ body[j].type = TagTEXT /\ body[j].whole

-----------------------------------------------------------------------------
(* C4: no degraded success.  Every returned buffer is well formed: the magic *)
(* header followed only by whole chunks, the last one IEND.                  *)
C4_NoDegradedSuccess ==
    \A c \in DOMAIN calls :
        calls[c].outcome.kind = "ok" => WellFormed(calls[c].outcome.bytes)

-----------------------------------------------------------------------------
(* C5: format errors.  An input without the magic header makes convert fail  *)
(* with "Data is not a PNG file."; an input whose first chunk (after the     *)
(* 16-byte marker when present) is not tagged IHDR makes it fail with        *)
(* "Invalid PNG header: " followed by the tag bytes as two-digit hex         *)
(* separated by single spaces.  Either way nothing is returned and no codec  *)
(* operation is ever called.                                                 *)

HexValue(ch) == (CHOOSE i \in 1..16 : HexDigit[i] = ch) - 1

\* text is the bytes in two-digit hex, separated by single spaces.
IsHexOf(text, bytes) ==
    /\ Len(text) = IF bytes = << >> THEN 0 ELSE 3 * Len(bytes) - 1
    /\ \A k \in 1..Len(bytes) :
          /\ \A d \in {3 * k - 2, 3 * k - 1} : \E i \in 1..16 : HexDigit[i] = text[d]
          /\ 16 * HexValue(text[3 * k - 2]) + HexValue(text[3 * k - 1]) = bytes[k]
          /\ k < Len(bytes) => text[3 * k] = " "

FirstTag(data) == Subarray(data, FirstChunkAt(data) + 4, FirstChunkAt(data) + 8)

C5_FormatErrors ==
    \A c \in DOMAIN calls :
        LET s == calls[c]
            noMagic == ~StartsWithMagic(s.data)
            noIhdr  == StartsWithMagic(s.data) /\ FirstTag(s.data) # TagIHDR
        IN  (noMagic \/ noIhdr) =>
              /\ s.codecLog = << >>
              /\ s.inflated = Unsettled /\ s.deflated = Unsettled
              /\ s.pc \in {"start", "cgbi", "ihdr", "done"}
              /\ s.outcome.kind # "ok"
              /\ s.outcome.bytes = << >>
              /\ (s.pc = "done" /\ noMagic) =>
                    s.outcome = Thrown("FormatError", <<"Data is not a PNG file.">>)
              /\ (s.pc = "done" /\ noIhdr) =>
                    /\ s.outcome.kind = "error"
                    /\ s.outcome.errType = "FormatError"
                    /\ Head(s.outcome.message) = "Invalid PNG header: "
                    /\ IsHexOf(Tail(s.outcome.message), FirstTag(s.data))

\* The first chunk after the magic header is tagged IDAT: the diagnostic
\* names 49 44 41 54.
C5_Witness ==
    \E c \in DOMAIN calls :
        /\ calls[c].pc = "done"
        /\ FirstTag(calls[c].data) = TagIDAT
        /\ calls[c].outcome.message =
              <<"Invalid PNG header: ", "4", "9", " ", "4", "4", " ", "4", "1", " ", "5", "4">>

-----------------------------------------------------------------------------
(* C7: codec protocol.  A call invokes at most one inflate and then at most  *)
(* one deflate: raw-inflate and zlib-deflate when the input carried the CgBI *)
(* marker, zlib-inflate and raw-deflate otherwise.  The byte swap runs on    *)
(* the settled result of inflate and deflate is called only after it.  When  *)
(* inflate fails deflate is never called, and a failure of either makes the  *)
(* call fail with what the codec threw and return nothing.                   *)
CodecPair(data) ==
    IF StartsWithMagic(data) /\ CarriesMarker(data)
    THEN <<"inflateRaw", "deflate">>
    ELSE <<"inflate", "deflateRaw">>

C7_CodecProtocol ==
    \A c \in DOMAIN calls :
        LET s == calls[c]
            n == Len(s.codecLog)
        IN  /\ n <= 2
            /\ s.codecLog = SubSeq(CodecPair(s.data), 1, n)
            /\ (s.inflated # Unsettled) = (n >= 1)
            /\ (s.deflated # Unsettled) = (n = 2)
            /\ s.pc \in {"swap", "deflate"} => (n = 1 /\ s.inflated.ok)
            /\ s.pc \in {"swap", "deflate", "awaitDeflate"} =>
                  s.decompressed = s.inflated.value
            /\ n = 2 =>
                  /\ s.inflated.ok
                  /\ s.pc \in {"awaitDeflate", "done"}
                  /\ s.newIdat = byteSwap(s.inflated.value, s.header.width, s.header.height)
            /\ (n >= 1 /\ ~s.inflated.ok) =>
                  /\ n = 1
                  /\ s.pc \in {"awaitInflate", "done"}
                  /\ s.pc = "done" => s.outcome = Thrown("CodecError", <<s.inflated.reason>>)
            /\ (n = 2 /\ ~s.deflated.ok) =>
                  (s.pc = "done" => s.outcome = Thrown("CodecError", <<s.deflated.reason>>))
            /\ s.outcome.kind = "error" => s.outcome.bytes = << >>
            /\ s.outcome.kind = "ok" => (n = 2 /\ s.deflated.ok)

\* A call on a CgBI input whose deflate threw: it ran raw-inflate, then
\* zlib-deflate, and failed with the codec's error.
C7_Witness ==
    \E c \in DOMAIN calls :
        /\ calls[c].pc = "done"
        /\ calls[c].codecLog = <<"inflateRaw", "deflate">>
        /\ ~calls[c].deflated.ok
        /\ calls[c].outcome.errType = "CodecError"

-----------------------------------------------------------------------------
(* C8: the byte swap is self-inverse.  For a buffer of exactly               *)
(* height*(1+4*width) bytes the transform returns a buffer of the same       *)
(* length in which every filter byte and bytes 1 and 3 of every pixel are    *)
(* unchanged and bytes 0 and 2 of every pixel have changed places; applied   *)
(* to its own result it returns the original buffer.                         *)
C8_SwapSelfInverse ==
    LET w   == swapTest.width
        h   == swapTest.height
        in  == swapTest.input
        out == swapTest.once
    IN  (swapTest.pc \in {"once", "twice"} /\ Len(in) = h * (1 + 4 * w)) =>
          /\ Len(out) = Len(in)
          /\ \A i \in 0..(h - 1) :
                LET row == i * (1 + 4 * w)
                IN  /\ out[row + 1] = in[row + 1]
                    /\ \A j \in 0..(w - 1) :
                          LET px == row + 1 + 4 * j
                          IN  /\ out[px + 1] = in[px + 3]
                              /\ out[px + 2] = in[px + 2]
                              /\ out[px + 3] = in[px + 1]
                              /\ out[px + 4] = in[px + 4]
          /\ swapTest.pc = "twice" => swapTest.twice = in

\* Two scanlines of pixels, swapped into a different buffer and back.
C8_Witness ==
    /\ swapTest.pc = "twice"
    /\ swapTest.width >= 1
    /\ swapTest.height >= 2
    /\ Len(swapTest.input) = swapTest.height * (1 + 4 * swapTest.width)
    /\ swapTest.once # swapTest.input
    /\ swapTest.twice = swapTest.input

-----------------------------------------------------------------------------
(* C9: scan termination.  Every iteration of the chunk-scan loop advances    *)
(* the read offset by at least 12, whatever the buffer holds; the loop is    *)
(* left at the first IEND tag or once the offset has reached the input       *)
(* length; and every call that has not settled eventually returns or fails.  *)
ScanAdvances ==
    \A c \in DOMAIN calls :
        (calls[c].pc = "scan" /\ calls'[c] # calls[c]) =>
            IF calls[c].offset < Len(calls[c].data)
            THEN /\ calls'[c].offset >= calls[c].offset + 12
                 /\ calls'[c].pc \in {"scan", "inflate"}
                 /\ (calls'[c].pc = "inflate") =
                       (DecodeChunk(calls[c].data, calls[c].offset).type = TagIEND)
            ELSE /\ calls'[c].offset = calls[c].offset
                 /\ calls'[c].pc = "inflate"

C9_ScanTerminates ==
    /\ [][ScanAdvances]_vars
    /\ (calls[1].pc # "done") ~> (calls[1].pc = "done")

\* A call settled after a read that went past the end of its input.
C9_Witness ==
    /\ calls[1].pc = "done"
    /\ calls[1].offset > Len(calls[1].data)
    /\ calls[1].outcome.kind = "ok"

-----------------------------------------------------------------------------
(* C10: concurrent conversions are independent.  With two calls in flight,   *)
(* interleaved at their suspension points in any order, each call ends with  *)
(* the outcome it has when it runs alone; a step of one call changes no      *)
(* other call's state; no input buffer and no module-level array is written. *)

\* The call run to its end with nothing else running.
RECURSIVE RunAlone(_)
RunAlone(s) == IF s.pc = "done" THEN s ELSE RunAlone(StepAlone(s))

SameAsAlone ==
    \A c \in DOMAIN calls :
        RunAlone(calls[c]).outcome
            = RunAlone(NewCall(calls[c].data, calls[c].fault, calls[c].orig,
                               calls[c].round)).outcome

OwnStateOnly ==
    /\ module' = module
    /\ \A c \in DOMAIN calls :
          calls'[c] # calls[c] =>
              /\ \A d \in DOMAIN calls \ {c} : calls'[d] = calls[d]
              /\ \/ calls'[c].data = calls[c].data
                 \/ calls[c].pc = "done" /\ calls'[c].pc = "start"

C10_Independent ==
    /\ [](SameAsAlone /\ module = ModuleInit)
    /\ [][OwnStateOnly]_vars

\* A standard and a CgBI conversion suspended together, one at its inflate
\* and one at its deflate.
C10_Witness ==
    /\ DOMAIN calls = {1, 2}
    /\ calls[1].pc = "awaitDeflate"
    /\ calls[2].pc = "awaitInflate"
    /\ calls[1].isCgbi # calls[2].isCgbi
    /\ calls[1].inflated.ok
    /\ calls[2].inflated.ok

=============================================================================
